---------------------------- MODULE Spec2Model ----------------------------
(***************************************************************************)
(* Share allocation of one Subsector (a "group") and its technologies      *)
(* ("options"): objects/sectors/source/subsector.cpp.                      *)
(*                                                                         *)
(* The C++ doubles are modelled as exact rationals <<n, d>> (d > 0, lowest *)
(* terms) together with the three IEEE-754 special values, so that a       *)
(* division by zero yields an infinity or a NaN exactly as the compiled    *)
(* code does.  Rounding of finite values is not modelled.                  *)
(***************************************************************************)
EXTENDS Integers, Sequences, FiniteSets, TLC

---------------------------------------------------------------------------
(* Bounds of the model.                                                    *)
MaxPer == 3
NumTechs == 2
MaxCalls == 2

Periods == 0 .. (MaxPer - 1)
Techs == 1 .. NumTechs

---------------------------------------------------------------------------
(* double arithmetic                                                       *)
NaN == <<0, 0>>
PosInf == <<1, 0>>
NegInf == <<-1, 0>>
Zero == <<0, 1>>
One == <<1, 1>>

Abs(x) == IF x < 0 THEN -x ELSE x
Sgn(x) == IF x < 0 THEN -1 ELSE IF x > 0 THEN 1 ELSE 0

RECURSIVE Gcd(_, _)
Gcd(a, b) == IF b = 0 THEN a ELSE Gcd(b, a % b)

\* the rational n/d in lowest terms, d # 0
Q(n, d) ==
    LET g == Gcd(Abs(n), Abs(d))
    IN  <<Sgn(d) * (n \div g), Abs(d) \div g>>

IsNaN(a) == a = NaN
IsFinite(a) == a[2] # 0
IsZero(a) == a = Zero

Neg(a) == <<-a[1], a[2]>>

Add(a, b) ==
    IF IsNaN(a) \/ IsNaN(b) THEN NaN
    ELSE IF ~IsFinite(a) THEN (IF ~IsFinite(b) /\ b # a THEN NaN ELSE a)
    ELSE IF ~IsFinite(b) THEN b
    ELSE LET g == Gcd(a[2], b[2])
         IN  Q(a[1] * (b[2] \div g) + b[1] * (a[2] \div g), (a[2] \div g) * b[2])

Sub(a, b) == Add(a, Neg(b))

Mul(a, b) ==
    IF IsNaN(a) \/ IsNaN(b) THEN NaN
    ELSE IF ~IsFinite(a) \/ ~IsFinite(b)
         THEN (IF IsZero(a) \/ IsZero(b) THEN NaN
               ELSE <<Sgn(a[1]) * Sgn(b[1]), 0>>)
    ELSE LET g1 == Gcd(Abs(a[1]), b[2])
             g2 == Gcd(Abs(b[1]), a[2])
         IN  Q((a[1] \div g1) * (b[1] \div g2), (a[2] \div g2) * (b[2] \div g1))

Div(a, b) ==
    IF IsNaN(a) \/ IsNaN(b) THEN NaN
    ELSE IF IsZero(b) THEN (IF IsZero(a) THEN NaN ELSE <<Sgn(a[1]), 0>>)
    ELSE IF ~IsFinite(b) THEN (IF ~IsFinite(a) THEN NaN ELSE Zero)
    ELSE IF ~IsFinite(a) THEN <<Sgn(a[1]) * Sgn(b[1]), 0>>
    ELSE Mul(a, <<Sgn(b[1]) * b[2], Abs(b[1])>>)

\* comparisons: every comparison with a NaN is false
Lt(a, b) ==
    IF IsNaN(a) \/ IsNaN(b) \/ a = b THEN FALSE
    ELSE IF a = NegInf \/ b = PosInf THEN TRUE
    ELSE IF a = PosInf \/ b = NegInf THEN FALSE
    ELSE a[1] * b[2] < b[1] * a[2]
Gt(a, b) == Lt(b, a)
Le(a, b) == ~IsNaN(a) /\ ~IsNaN(b) /\ (a = b \/ Lt(a, b))
Ge(a, b) == Le(b, a)
Eq(a, b) == ~IsNaN(a) /\ a = b

\* pow( a, n ) for an integral exponent n
RECURSIVE PowInt(_, _)
PowInt(a, n) ==
    IF n = 0 THEN One
    ELSE IF n < 0 THEN Div(One, PowInt(a, -n))
    ELSE Mul(a, PowInt(a, n - 1))

\* exp( x ) for x >= 0.  Above ln(DBL_MAX) = 709.78 the double overflows to
\* +inf.  Below it the transcendental value is replaced by a rational step
\* function that bounds it from below: floor(e^k) on [k, k+1) for k < 9, and
\* floor(e^9) from there on.  Like exp it is 1 at 0, positive and
\* non-decreasing.
ExpTable == <<1, 2, 7, 20, 54, 148, 403, 1096, 2980, 8103>>
Floor(x) == x[1] \div x[2]
Exp(x) ==
    IF IsNaN(x) THEN NaN
    ELSE IF x = PosInf THEN PosInf
    ELSE IF x = NegInf THEN Zero
    ELSE IF Gt(x, <<709, 1>>) THEN PosInf
    ELSE IF Lt(x, Zero) THEN Div(One, <<ExpTable[Floor(Neg(x)) + 1], 1>>)
    ELSE <<ExpTable[IF Floor(x) < 9 THEN Floor(x) + 1 ELSE 10], 1>>


---------------------------------------------------------------------------
(* Modeltime and util, which subsector.cpp reads: 15-year periods starting *)
(* in 1975, and the tolerance of util::getSmallNumber().                   *)
StartYr == 1975
TimeStep == 15
getyr_to_per(yr) == (yr - StartYr) \div TimeStep
getstartyr == StartYr
getendyr == StartYr + TimeStep * (MaxPer - 1)
SMALL_NUM == <<1, 1000000>>

---------------------------------------------------------------------------
VARIABLES
    share,              \* share[ period ]: subsector share
    shrwts,             \* shrwts[ period ]: subsector share weight
    capLimit,           \* capLimit[ period ]: capacity limit, as a share
    fixedShare,         \* fixedShare[ period ]: share that is fixed supply
    capLimited,         \* capLimited[ period ]: pegged at the capacity limit
    calibrationStatus,  \* calibrationStatus[ period ]
    doCalibration,      \* doCalibration[ period ]: calOutputValue was read in
    calOutputValue,     \* calOutputValue[ period ]: subsector calibration value
    subsectorprice,     \* subsectorprice[ period ]
    lexp,               \* lexp[ period ]: subsector logit exponent (integral)
    fuelPrefElasticity, \* fuelPrefElasticity[ period ] (integral)
    scaleYear,          \* year to scale share weights to after calibration
    calibrationActive,  \* Configuration flag "CalibrationActive"
    techs,              \* techs[ i ][ period ]: the technology objects
    call,               \* the last member function called, its arguments and locals
    calls,              \* number of calls made by the caller so far
    pc,                 \* position of the calling solver loop
    drv,                \* the inputs the calling solver loop holds fixed
    marketInfo          \* marketInfo[ period ]: the sector's market information

group == <<share, shrwts, capLimit, fixedShare, capLimited, calibrationStatus,
           doCalibration, calOutputValue, subsectorprice, lexp,
           fuelPrefElasticity, scaleYear, calibrationActive>>
vars == <<share, shrwts, capLimit, fixedShare, capLimited, calibrationStatus,
          doCalibration, calOutputValue, subsectorprice, lexp,
          fuelPrefElasticity, scaleYear, calibrationActive, techs, call,
          calls, pc, drv, marketInfo>>

\* Marketplace: the information object of the sector's market in a period is
\* a function from the names of the items set so far to their values; no
\* item is set before the data is read in
NoMarketInfo == [p \in Periods |-> <<>>]

\* sum += f[ i ] for i = 1 .. n, in loop order
RECURSIVE SumTo(_, _)
SumTo(f, n) == IF n = 0 THEN Zero ELSE Add(SumTo(f, n - 1), f[n])

---------------------------------------------------------------------------
(* technology: the member functions of the technology objects that         *)
(* Subsector calls.                                                        *)

\* unnormalized share: shareWeight * cost^logitExponent; an option with share
\* weight 0 contributes 0 and a zero cost resolves to a zero share
techCalcShare(t) ==
    IF Eq(t.shrwt, Zero) \/ Eq(t.techcost, Zero) THEN Zero
    ELSE Mul(t.shrwt, PowInt(t.techcost, t.lexp))

\* divide by the sum of the unnormalized shares; 0 when the sum is 0
techNormShare(sh, sum) == IF Eq(sum, Zero) THEN Zero ELSE Div(sh, sum)

techAvailable(t) == ~Eq(t.shrwt, Zero)

\* the option's output is fixed or calibrated
techOuputFixed(t) == t.calStatus \/ ~Eq(t.fixedOutput, Zero)

\* a fixed option's share is its fixed quantity over the demand
techAdjShares(t, subsecdmd, subsecfixedOutput) ==
    IF Gt(subsecfixedOutput, Zero) /\ Gt(t.fixedOutput, Zero)
    THEN [t EXCEPT !.share = IF Gt(subsecdmd, Zero)
                             THEN Div(t.fixedOutput, subsecdmd) ELSE Zero]
    ELSE t

\* the subsector's weight adjustment, at the option level
techAdjustForCalibration(t, subSectorDemand) ==
    LET w0 == IF Eq(t.shrwt, Zero) /\ Gt(t.calOutput, Zero) THEN One ELSE t.shrwt
        technologyDemand == Mul(t.share, subSectorDemand)
        w1 == IF Gt(technologyDemand, Zero)
              THEN Mul(w0, Div(t.calOutput, technologyDemand)) ELSE w0
    IN  [t EXCEPT !.shrwt = IF Lt(w1, Zero) THEN One ELSE w1]

---------------------------------------------------------------------------
(* Subsector: const member functions                                       *)

getFixedOutput(period) ==
    SumTo([i \in Techs |-> techs[i][period].fixedOutput], NumTechs)

\* faulty variant of getTotalCalOutputs: the technologies' calibration
\* outputs are added to the subsector's calibration value
getTotalCalOutputsBoth(period) ==
    Add(IF doCalibration[period] THEN calOutputValue[period] ELSE Zero,
        SumTo([i \in Techs |-> IF techs[i][period].calStatus
                               THEN techs[i][period].calOutput ELSE Zero],
              NumTechs))

getTotalCalOutputs(period) ==
    IF doCalibration[period] THEN Add(Zero, calOutputValue[period])
    ELSE SumTo([i \in Techs |-> IF techs[i][period].calStatus
                                THEN techs[i][period].calOutput ELSE Zero],
               NumTechs)

\* faulty variant of getNumberAvailTechs: every technology counts
getNumberAvailTechsAll(period) == Cardinality(Techs)

getNumberAvailTechs(period) ==
    Cardinality({i \in Techs : techAvailable(techs[i][period])})

\* faulty variant of allOuputFixed: one fixed technology is enough
allOuputFixedAnyTech(period) ==
    LET outputFixed == doCalibration[period] \/ Eq(shrwts[period], Zero)
        oneFixed == \E i \in Techs : techOuputFixed(techs[i][period])
    IN  IF outputFixed THEN TRUE ELSE oneFixed

allOuputFixed(period) ==
    LET outputFixed == doCalibration[period] \/ Eq(shrwts[period], Zero)
        oneNotFixed == ~outputFixed
                       /\ \E i \in Techs : ~techOuputFixed(techs[i][period])
    IN  IF outputFixed THEN TRUE ELSE ~oneNotFixed

\* faulty variant of capLimitTransform: no limit, no change
capLimitTransformUnchanged(capLim, orgShare) ==
    IF Lt(capLim, Sub(One, SMALL_NUM))
    THEN LET factor == Exp(PowInt(Div(Mul(<<7, 5>>, orgShare), capLim), 2))
         IN  Div(Mul(orgShare, factor),
                 Add(One, Mul(Div(orgShare, capLim), factor)))
    ELSE orgShare

capLimitTransform(capLim, orgShare) ==
    IF Lt(capLim, Sub(One, SMALL_NUM))
    THEN LET factor == Exp(PowInt(Div(Mul(<<7, 5>>, orgShare), capLim), 2))
         IN  Div(Mul(orgShare, factor),
                 Add(One, Mul(Div(orgShare, capLim), factor)))
    ELSE capLim

---------------------------------------------------------------------------
(* Subsector: member functions that change the object.  Each is the whole  *)
(* function; the caller's bookkeeping (calls, pc, drv) is added where the  *)
(* function is called.                                                     *)

\* faulty variant of calcTechShares: the sum leaves out the last technology
calcTechSharesShortSum(period, costs) ==
    LET priced == [i \in Techs |-> [techs[i][period] EXCEPT !.techcost = costs[i]]]
        raw == [i \in Techs |-> techCalcShare(priced[i])]
        sum == SumTo(raw, NumTechs - 1)
    IN  [i \in Techs |->
            [techs[i] EXCEPT ![period] =
                [priced[i] EXCEPT !.share = techNormShare(raw[i], sum)]]]

\* technology shares of the period: cost, unnormalized share, sum, normShare
calcTechShares(period, costs) ==
    LET priced == [i \in Techs |-> [techs[i][period] EXCEPT !.techcost = costs[i]]]
        raw == [i \in Techs |-> techCalcShare(priced[i])]
        sum == SumTo(raw, NumTechs)
    IN  [i \in Techs |->
            [techs[i] EXCEPT ![period] =
                [priced[i] EXCEPT !.share = techNormShare(raw[i], sum)]]]

\* share-weighted cost of the technologies ts of the period
calcPrice(period, ts) ==
    SumTo([i \in Techs |-> Mul(ts[i][period].share, ts[i][period].techcost)],
          NumTechs)

\* faulty variant of calcShare: no test of the price
calcShareNoZeroTest(period, costs, scaledGdpPerCapita) ==
    LET ts == calcTechShares(period, costs)
        price == calcPrice(period, ts)
        sh == Mul(Mul(shrwts[period], PowInt(price, lexp[period])),
                  PowInt(scaledGdpPerCapita, fuelPrefElasticity[period]))
    IN  /\ techs' = ts
        /\ subsectorprice' = [subsectorprice EXCEPT ![period] = price]
        /\ share' = [share EXCEPT ![period] = sh]
        /\ call' = [op |-> "calcShare", period |-> period, costs |-> costs,
                    gdp |-> scaledGdpPerCapita]
        /\ UNCHANGED <<shrwts, capLimit, fixedShare, capLimited,
                       calibrationStatus, doCalibration, calOutputValue, lexp,
                       fuelPrefElasticity, scaleYear, calibrationActive>>

calcShare(period, costs, scaledGdpPerCapita) ==
    LET ts == calcTechShares(period, costs)
        price == calcPrice(period, ts)
        sh == IF Eq(price, Zero) THEN Zero
              ELSE Mul(Mul(shrwts[period], PowInt(price, lexp[period])),
                       PowInt(scaledGdpPerCapita, fuelPrefElasticity[period]))
    IN  /\ techs' = ts
        /\ subsectorprice' = [subsectorprice EXCEPT ![period] = price]
        /\ share' = [share EXCEPT ![period] = sh]
        /\ call' = [op |-> "calcShare", period |-> period, costs |-> costs,
                    gdp |-> scaledGdpPerCapita]
        /\ UNCHANGED <<shrwts, capLimit, fixedShare, capLimited,
                       calibrationStatus, doCalibration, calOutputValue, lexp,
                       fuelPrefElasticity, scaleYear, calibrationActive>>

normShare(sum, period) ==
    /\ share' = [share EXCEPT ![period] =
                    IF Eq(sum, Zero) THEN Zero ELSE Div(share[period], sum)]
    /\ call' = [op |-> "normShare", period |-> period, sum |-> sum]
    /\ UNCHANGED <<shrwts, capLimit, fixedShare, capLimited, calibrationStatus,
                   doCalibration, calOutputValue, subsectorprice, lexp,
                   fuelPrefElasticity, scaleYear, calibrationActive, techs>>

\* faulty variant of setCapLimitStatus: the flag can only be set
setCapLimitStatusSetOnly(value, period) ==
    /\ capLimited' = [capLimited EXCEPT ![period] = @ \/ value]
    /\ call' = [op |-> "setCapLimitStatus", period |-> period, value |-> value]
    /\ UNCHANGED <<share, shrwts, capLimit, fixedShare, calibrationStatus,
                   doCalibration, calOutputValue, subsectorprice, lexp,
                   fuelPrefElasticity, scaleYear, calibrationActive, techs>>

setCapLimitStatus(value, period) ==
    /\ capLimited' = [capLimited EXCEPT ![period] = value]
    /\ call' = [op |-> "setCapLimitStatus", period |-> period, value |-> value]
    /\ UNCHANGED <<share, shrwts, capLimit, fixedShare, calibrationStatus,
                   doCalibration, calOutputValue, subsectorprice, lexp,
                   fuelPrefElasticity, scaleYear, calibrationActive, techs>>

\* faulty variant of limitSharesBranch: the capLimited flag is not consulted
limitSharesBranchNoFlag(multiplier, period) ==
    LET capLimitValue == capLimitTransform(capLimit[period], share[period])
    IN  IF Eq(multiplier, Zero) THEN "zero"
        ELSE IF Ge(share[period], capLimitValue) THEN "transform"
        ELSE IF Eq(fixedShare[period], Zero) THEN "scale" ELSE "fixed"

\* faulty variant of limitSharesBranch: the share is compared with the
\* capacity limit itself
limitSharesBranchByLimit(multiplier, period) ==
    IF Eq(multiplier, Zero) THEN "zero"
    ELSE IF Ge(share[period], capLimit[period])
         THEN (IF ~capLimited[period] THEN "transform" ELSE "limited")
    ELSE IF Eq(fixedShare[period], Zero) THEN "scale" ELSE "fixed"

\* the branch limitShares takes
limitSharesBranch(multiplier, period) ==
    LET capLimitValue == capLimitTransform(capLimit[period], share[period])
    IN  IF Eq(multiplier, Zero) THEN "zero"
        ELSE IF Ge(share[period], capLimitValue)
             THEN (IF ~capLimited[period] THEN "transform" ELSE "limited")
        ELSE IF Eq(fixedShare[period], Zero) THEN "scale" ELSE "fixed"

limitShares(multiplier, period) ==
    LET branch == limitSharesBranch(multiplier, period)
    IN  /\ share' = [share EXCEPT ![period] =
                        CASE branch = "zero" -> Zero
                          [] branch = "transform" ->
                                capLimitTransform(capLimit[period], share[period])
                          [] branch = "scale" -> Mul(share[period], multiplier)
                          [] OTHER -> share[period]]
        /\ capLimited' = [capLimited EXCEPT ![period] =
                             IF branch = "transform" THEN TRUE ELSE @]
        /\ call' = [op |-> "limitShares", period |-> period,
                    multiplier |-> multiplier, branch |-> branch,
                    orgShare |-> share[period]]
        /\ UNCHANGED <<shrwts, capLimit, fixedShare, calibrationStatus,
                       doCalibration, calOutputValue, subsectorprice, lexp,
                       fuelPrefElasticity, scaleYear, calibrationActive, techs>>

setCalibrationStatus(period) ==
    IF doCalibration[period] \/ \E i \in Techs : techs[i][period].calStatus
    THEN [calibrationStatus EXCEPT ![period] = TRUE]
    ELSE calibrationStatus

\* the share weights after shareWeightLinearInterpFn( beginPeriod, endPeriod )
RECURSIVE interpLoop(_, _, _, _)
interpLoop(w, period, loopPeriod, shareIncrement) ==
    IF period < loopPeriod
    THEN interpLoop([w EXCEPT ![period] = Add(w[period - 1], shareIncrement)],
                    period + 1, loopPeriod, shareIncrement)
    ELSE w

\* faulty variant of shareWeightLinearInterpFn: the loop starts at beginPeriod
\* itself and so rewrites the weight of the calibrated period
shareWeightLinearInterpFnFromBegin(w, beginPeriod, endPeriod) ==
    LET shareIncrement ==
            IF endPeriod > beginPeriod
            THEN Div(Sub(w[endPeriod], w[beginPeriod]),
                     <<endPeriod - beginPeriod, 1>>)
            ELSE Zero
        loopPeriod == IF endPeriod = beginPeriod THEN MaxPer ELSE endPeriod
    IN  interpLoop(w, beginPeriod, loopPeriod, shareIncrement)

\* faulty variant of shareWeightLinearInterpFn: endPeriod = beginPeriod is not
\* taken as the flag to keep the weights constant
shareWeightLinearInterpFnNoFlag(w, beginPeriod, endPeriod) ==
    LET shareIncrement ==
            IF endPeriod > beginPeriod
            THEN Div(Sub(w[endPeriod], w[beginPeriod]),
                     <<endPeriod - beginPeriod, 1>>)
            ELSE Zero
    IN  interpLoop(w, beginPeriod + 1, endPeriod, shareIncrement)

\* faulty variant of shareWeightLinearInterpFn: the increment is the whole
\* difference of the two weights
shareWeightLinearInterpFnUndivided(w, beginPeriod, endPeriod) ==
    LET shareIncrement ==
            IF endPeriod > beginPeriod
            THEN Sub(w[endPeriod], w[beginPeriod])
            ELSE Zero
        loopPeriod == IF endPeriod = beginPeriod THEN MaxPer ELSE endPeriod
    IN  interpLoop(w, beginPeriod + 1, loopPeriod, shareIncrement)

shareWeightLinearInterpFn(w, beginPeriod, endPeriod) ==
    LET shareIncrement ==
            IF endPeriod > beginPeriod
            THEN Div(Sub(w[endPeriod], w[beginPeriod]),
                     <<endPeriod - beginPeriod, 1>>)
            ELSE Zero
        loopPeriod == IF endPeriod = beginPeriod THEN MaxPer ELSE endPeriod
    IN  interpLoop(w, beginPeriod + 1, loopPeriod, shareIncrement)

\* faulty variant of interpolatedShareWeights: a beginning share weight of
\* zero is not interpolated from
interpolatedShareWeightsPositiveOnly(cs, period) ==
    IF period > getyr_to_per(1990) /\ cs[period - 1] /\ calibrationActive
    THEN LET endPeriod == IF scaleYear >= getstartyr
                          THEN getyr_to_per(scaleYear) ELSE 0
         IN  IF endPeriod >= period - 1 /\ Gt(shrwts[period - 1], Zero)
             THEN shareWeightLinearInterpFn(shrwts, period - 1, endPeriod)
             ELSE shrwts
    ELSE shrwts

\* faulty variant of interpolatedShareWeights: the beginning share weight is
\* not tested
interpolatedShareWeightsAnySign(cs, period) ==
    IF period > getyr_to_per(1990) /\ cs[period - 1] /\ calibrationActive
    THEN LET endPeriod == IF scaleYear >= getstartyr
                          THEN getyr_to_per(scaleYear) ELSE 0
         IN  IF endPeriod >= period - 1
             THEN shareWeightLinearInterpFn(shrwts, period - 1, endPeriod)
             ELSE shrwts
    ELSE shrwts

\* the share weights after interpolateShareWeights( period ), given the
\* calibration status vector cs
interpolatedShareWeights(cs, period) ==
    IF period > getyr_to_per(1990) /\ cs[period - 1] /\ calibrationActive
    THEN LET endPeriod == IF scaleYear >= getstartyr
                          THEN getyr_to_per(scaleYear) ELSE 0
         IN  IF endPeriod >= period - 1 /\ Ge(shrwts[period - 1], Zero)
             THEN shareWeightLinearInterpFn(shrwts, period - 1, endPeriod)
             ELSE shrwts
    ELSE shrwts

interpolateShareWeights(period) ==
    /\ shrwts' = interpolatedShareWeights(calibrationStatus, period)
    /\ call' = [op |-> "interpolateShareWeights", period |-> period,
                before |-> shrwts]
    /\ UNCHANGED <<share, capLimit, fixedShare, capLimited, calibrationStatus,
                   doCalibration, calOutputValue, subsectorprice, lexp,
                   fuelPrefElasticity, scaleYear, calibrationActive, techs>>

initCalc(period) ==
    LET cs == setCalibrationStatus(period)
    IN  /\ calibrationStatus' = cs
        /\ shrwts' = interpolatedShareWeights(cs, period)
        /\ fixedShare' = [fixedShare EXCEPT ![period] =
                             IF Gt(getFixedOutput(period), Zero)
                             THEN <<1, 10>> ELSE Zero]
        /\ capLimit' = [capLimit EXCEPT ![period] =
                           IF Gt(getTotalCalOutputs(period), Zero) /\ Lt(@, One)
                           THEN One ELSE @]
        /\ call' = [op |-> "initCalc", period |-> period]
        /\ UNCHANGED <<share, capLimited, doCalibration, calOutputValue,
                       subsectorprice, lexp, fuelPrefElasticity, scaleYear,
                       calibrationActive, techs>>

\* faulty variants of adjustedShare
\* the fixed supply is added to the share the costs gave
adjustedShareAddsFixed(demand, shareRatio, totalfixedOutput, period) ==
    LET sumSubsectfixedOutput == getFixedOutput(period)
    IN  IF Gt(totalfixedOutput, Zero)
        THEN (IF Gt(sumSubsectfixedOutput, Zero)
              THEN (IF Gt(demand, Zero)
                    THEN Add(share[period], Div(sumSubsectfixedOutput, demand))
                    ELSE Zero)
              ELSE (IF Gt(demand, Zero)
                    THEN Mul(share[period], shareRatio) ELSE Zero))
        ELSE share[period]

\* the share without fixed supply is divided by shareRatio
adjustedShareDivides(demand, shareRatio, totalfixedOutput, period) ==
    LET sumSubsectfixedOutput == getFixedOutput(period)
    IN  IF Gt(totalfixedOutput, Zero)
        THEN (IF Gt(sumSubsectfixedOutput, Zero)
              THEN (IF Gt(demand, Zero)
                    THEN Div(sumSubsectfixedOutput, demand) ELSE Zero)
              ELSE (IF Gt(demand, Zero)
                    THEN Div(share[period], shareRatio) ELSE Zero))
        ELSE share[period]

\* the demand is not tested before the fixed supply is divided by it
adjustedShareNoDemandTest(demand, shareRatio, totalfixedOutput, period) ==
    LET sumSubsectfixedOutput == getFixedOutput(period)
    IN  IF Gt(totalfixedOutput, Zero)
        THEN (IF Gt(sumSubsectfixedOutput, Zero)
              THEN Div(sumSubsectfixedOutput, demand)
              ELSE (IF Gt(demand, Zero)
                    THEN Mul(share[period], shareRatio) ELSE Zero))
        ELSE share[period]

\* the share adjShares gives the subsector
adjustedShare(demand, shareRatio, totalfixedOutput, period) ==
    LET sumSubsectfixedOutput == getFixedOutput(period)
    IN  IF Gt(totalfixedOutput, Zero)
        THEN (IF Gt(sumSubsectfixedOutput, Zero)
              THEN (IF Gt(demand, Zero)
                    THEN Div(sumSubsectfixedOutput, demand) ELSE Zero)
              ELSE (IF Gt(demand, Zero)
                    THEN Mul(share[period], shareRatio) ELSE Zero))
        ELSE share[period]

adjShares(demand, shareRatio, totalfixedOutput, period) ==
    LET sumSubsectfixedOutput == getFixedOutput(period)
        sh == adjustedShare(demand, shareRatio, totalfixedOutput, period)
        subsecdmd == Mul(sh, demand)
    IN  /\ share' = [share EXCEPT ![period] = sh]
        /\ techs' = [i \in Techs |-> [techs[i] EXCEPT ![period] =
                        techAdjShares(@, subsecdmd, sumSubsectfixedOutput)]]
        /\ call' = [op |-> "adjShares", period |-> period, demand |-> demand,
                    shareRatio |-> shareRatio,
                    totalfixedOutput |-> totalfixedOutput,
                    sumSubsectfixedOutput |-> sumSubsectfixedOutput,
                    before |-> share[period]]
        /\ UNCHANGED <<shrwts, capLimit, fixedShare, capLimited,
                       calibrationStatus, doCalibration, calOutputValue,
                       subsectorprice, lexp, fuelPrefElasticity, scaleYear,
                       calibrationActive>>

\* faulty variants of the steps of adjustForCalibration
\* the zero share weight is left at zero
resetShareWeightNever(w, calOutput) == w

\* the available demand is not floored at zero
availableDemandNoFloor(sectorDemand, totalfixedOutput) ==
    Sub(sectorDemand, totalfixedOutput)

\* the calibration value is adjusted in every case
calOutputSubsectAlways(calOutput, available, totalCalOutputs, allFixedOutput) ==
    Mul(calOutput, Div(available, totalCalOutputs))

\* the share weight is scaled by the square of the ratio
scaledShareWeightSquared(w, calOutput, subSectorDemand) ==
    IF Gt(subSectorDemand, Zero)
    THEN Mul(w, PowInt(Div(calOutput, subSectorDemand), 2))
    ELSE w

\* faulty variant of scaledShareWeight: no test of the demand
scaledShareWeightAlways(w, calOutput, subSectorDemand) ==
    Mul(w, Div(calOutput, subSectorDemand))

\* the share weight is reset to 1 whenever there is a calibration value
resetShareWeightAlways(w, calOutput) == IF Gt(calOutput, Zero) THEN One ELSE w

\* adjustForCalibration, step by step
\* share weights must not be zero, or else cannot calibrate
resetShareWeight(w, calOutput) ==
    IF Eq(w, Zero) /\ Gt(calOutput, Zero) THEN One ELSE w

\* demand that can be shared out: less the subsectors with fixed supply
availableDemand(sectorDemand, totalfixedOutput) ==
    LET diff == Sub(sectorDemand, totalfixedOutput)
    IN  IF Lt(diff, Zero) THEN Zero ELSE diff

\* the calibration value, adjusted in all cases unless the calibrated values
\* are below the available demand and not all outputs are fixed
calOutputSubsect(calOutput, available, totalCalOutputs, allFixedOutput) ==
    IF ~(Lt(totalCalOutputs, available) /\ ~allFixedOutput)
    THEN Mul(calOutput, Div(available, totalCalOutputs))
    ELSE calOutput

scaledShareWeight(w, calOutput, subSectorDemand) ==
    IF Gt(subSectorDemand, Zero)
    THEN Mul(w, Div(calOutput, subSectorDemand))
    ELSE w

\* faulty variant of checkedShareWeight: a negative weight is reset to 0
checkedShareWeightToZero(w) == IF Lt(w, Zero) THEN Zero ELSE w

\* share weights below zero are reset to 1
checkedShareWeight(w) == IF Lt(w, Zero) THEN One ELSE w

\* faulty variant of adjustForCalibration: the share is set to the calibrated
\* share as well
adjustForCalibrationSetsShare(sectorDemand, totalfixedOutput, totalCalOutputs, allFixedOutput, period) ==
    LET target == getTotalCalOutputs(period)
        w0 == resetShareWeight(shrwts[period], target)
        available == availableDemand(sectorDemand, totalfixedOutput)
        calOutput == calOutputSubsect(target, available, totalCalOutputs,
                                      allFixedOutput)
        subSectorDemand == Mul(share[period], sectorDemand)
        w1 == scaledShareWeight(w0, calOutput, subSectorDemand)
        passDown == getNumberAvailTechs(period) > 1
    IN  /\ shrwts' = [shrwts EXCEPT ![period] = checkedShareWeight(w1)]
        /\ share' = [share EXCEPT ![period] =
                        IF Gt(sectorDemand, Zero)
                        THEN Div(calOutput, sectorDemand) ELSE @]
        /\ techs' = [i \in Techs |-> [techs[i] EXCEPT ![period] =
                        IF passDown /\ techAvailable(@)
                        THEN techAdjustForCalibration(@, calOutput)
                        ELSE @]]
        /\ call' = [op |-> "adjustForCalibration", period |-> period,
                    sectorDemand |-> sectorDemand,
                    totalfixedOutput |-> totalfixedOutput,
                    totalCalOutputs |-> totalCalOutputs,
                    allFixedOutput |-> allFixedOutput,
                    target |-> target,
                    availableDemand |-> available,
                    calOutputSubsect |-> calOutput,
                    subSectorDemand |-> subSectorDemand,
                    shrwtBefore |-> shrwts[period],
                    shrwtAtScaling |-> w0,
                    shrwtScaled |-> w1,
                    diagnostic |-> Lt(w1, Zero),
                    numberTechs |-> getNumberAvailTechs(period)]
        /\ UNCHANGED <<capLimit, fixedShare, capLimited,
                       calibrationStatus, doCalibration, calOutputValue,
                       subsectorprice, lexp, fuelPrefElasticity, scaleYear,
                       calibrationActive>>

adjustForCalibration(sectorDemand, totalfixedOutput, totalCalOutputs, allFixedOutput, period) ==
    LET target == getTotalCalOutputs(period)
        w0 == resetShareWeight(shrwts[period], target)
        available == availableDemand(sectorDemand, totalfixedOutput)
        calOutput == calOutputSubsect(target, available, totalCalOutputs,
                                      allFixedOutput)
        subSectorDemand == Mul(share[period], sectorDemand)
        w1 == scaledShareWeight(w0, calOutput, subSectorDemand)
        passDown == getNumberAvailTechs(period) > 1
    IN  /\ shrwts' = [shrwts EXCEPT ![period] = checkedShareWeight(w1)]
        /\ techs' = [i \in Techs |-> [techs[i] EXCEPT ![period] =
                        IF passDown /\ techAvailable(@)
                        THEN techAdjustForCalibration(@, calOutput)
                        ELSE @]]
        /\ call' = [op |-> "adjustForCalibration", period |-> period,
                    sectorDemand |-> sectorDemand,
                    totalfixedOutput |-> totalfixedOutput,
                    totalCalOutputs |-> totalCalOutputs,
                    allFixedOutput |-> allFixedOutput,
                    target |-> target,
                    availableDemand |-> available,
                    calOutputSubsect |-> calOutput,
                    subSectorDemand |-> subSectorDemand,
                    shrwtBefore |-> shrwts[period],
                    shrwtAtScaling |-> w0,
                    shrwtScaled |-> w1,
                    diagnostic |-> Lt(w1, Zero),
                    numberTechs |-> getNumberAvailTechs(period)]
        /\ UNCHANGED <<share, capLimit, fixedShare, capLimited,
                       calibrationStatus, doCalibration, calOutputValue,
                       subsectorprice, lexp, fuelPrefElasticity, scaleYear,
                       calibrationActive>>

---------------------------------------------------------------------------
(* The objects after construction and XMLParse.                            *)
LOGIT_EXP_DEFAULT == -3

\* a technology as constructed and parsed: nothing computed yet
Tech(w, le, fixed, cal, calOut) ==
    [share |-> Zero, shrwt |-> w, techcost |-> Zero, lexp |-> le,
     fixedOutput |-> fixed, calStatus |-> cal, calOutput |-> calOut]

PlainTech == Tech(One, -1, Zero, FALSE, Zero)
FixedTech == Tech(One, -1, <<40, 1>>, FALSE, Zero)
CalTech == Tech(One, -1, Zero, TRUE, <<20, 1>>)
OffTech == Tech(Zero, -1, Zero, FALSE, Zero)

\* the same technology read in for every period
SameTechs(f) == [i \in Techs |-> [p \in Periods |-> f[i]]]
PlainTechs == SameTechs([i \in Techs |-> PlainTech])
FixedTechs == SameTechs([i \in Techs |-> IF i = 1 THEN FixedTech ELSE OffTech])
CalTechs == SameTechs([i \in Techs |-> IF i = 1 THEN CalTech ELSE PlainTech])

\* Subsector::Subsector: the vectors no XML element fills
Constructed ==
    /\ share = [p \in Periods |-> Zero]
    /\ fixedShare = [p \in Periods |-> Zero]
    /\ capLimited = [p \in Periods |-> FALSE]
    /\ calibrationStatus = [p \in Periods |-> FALSE]
    /\ subsectorprice = [p \in Periods |-> Zero]
    /\ fuelPrefElasticity = [p \in Periods |-> 0]
    /\ call = [op |-> "none", period |-> 0]
    /\ calls = 0

\* XMLParse: calOutputValue read in for the periods of calPeriods
Parsed(calPeriods, value) ==
    /\ doCalibration = [p \in Periods |-> p \in calPeriods]
    /\ calOutputValue = [p \in Periods |-> IF p \in calPeriods THEN value ELSE Zero]

---------------------------------------------------------------------------
(* Spec: the model run.  The caller takes the periods in order; in each it *)
(* calls initCalc once and then, iteration after iteration of the solver,  *)
(* the share and calibration functions with its current trial values.      *)
CostSet == {One, <<2, 1>>}
MultiplierSet == {Zero, <<3, 2>>}
DemandSet == {<<-100, 1>>, Zero, <<100, 1>>}
FixedSet == {Zero, <<40, 1>>}

Init ==
    /\ Constructed
    /\ lexp = [p \in Periods |-> -1]
    /\ capLimit \in {[p \in Periods |-> c] : c \in {One, <<7, 10>>}}
    /\ \/ /\ shrwts = [p \in Periods |-> One]
          /\ Parsed({}, Zero)
          /\ techs \in {PlainTechs, FixedTechs, CalTechs}
          /\ scaleYear = getendyr
          /\ calibrationActive = TRUE
       \/ /\ shrwts = [p \in Periods |-> <<p + 1, 1>>]
          /\ Parsed({0, 1}, <<30, 1>>)
          /\ techs = PlainTechs
          /\ scaleYear \in {0, 1990, getendyr}
          /\ calibrationActive \in BOOLEAN
    /\ pc = "initCalc"
    /\ drv = [period |-> 0]
    /\ marketInfo = NoMarketInfo

\* the caller is iterating in the current period and makes one more call
Iterating == pc = "iterate" /\ calls < MaxCalls
Called == calls' = calls + 1 /\ UNCHANGED <<pc, drv>>

InitCalc ==
    /\ pc = "initCalc"
    /\ initCalc(drv.period)
    /\ pc' = "iterate"
    /\ UNCHANGED <<calls, drv>>
    /\ UNCHANGED marketInfo

InterpolateShareWeights ==
    /\ Iterating
    /\ interpolateShareWeights(drv.period)
    /\ Called
    /\ UNCHANGED marketInfo

CalcShare ==
    /\ Iterating
    /\ \E c \in CostSet : calcShare(drv.period, [i \in Techs |-> c], One)
    /\ Called
    /\ UNCHANGED marketInfo

\* the sum is the sum of the shares of this subsector and of the others
NormShare ==
    /\ Iterating
    /\ normShare(Add(share[drv.period], One), drv.period)
    /\ Called
    /\ UNCHANGED marketInfo

\* limitShares is called on shares that are already normalized
LimitShares ==
    /\ Iterating
    /\ Le(share[drv.period], One)
    /\ \E multiplier \in MultiplierSet : limitShares(multiplier, drv.period)
    /\ Called
    /\ UNCHANGED marketInfo

AdjShares ==
    /\ Iterating
    /\ \E demand \in DemandSet, totalfixedOutput \in FixedSet :
          adjShares(demand, <<1, 2>>, totalfixedOutput, drv.period)
    /\ Called
    /\ UNCHANGED marketInfo

AdjustForCalibration ==
    /\ Iterating
    /\ \E totalfixedOutput \in FixedSet, allFixedOutput \in BOOLEAN :
          adjustForCalibration(<<100, 1>>, totalfixedOutput, <<50, 1>>,
                               allFixedOutput, drv.period)
    /\ Called
    /\ UNCHANGED marketInfo

NextPeriod ==
    /\ pc = "iterate"
    /\ drv.period + 1 < MaxPer
    /\ drv' = [drv EXCEPT !.period = @ + 1]
    /\ pc' = "initCalc"
    /\ UNCHANGED <<group, techs, call, calls>>
    /\ UNCHANGED marketInfo

Next ==
    \/ InitCalc
    \/ InterpolateShareWeights
    \/ CalcShare
    \/ NormShare
    \/ LimitShares
    \/ AdjShares
    \/ AdjustForCalibration
    \/ NextPeriod

Spec == Init /\ [][Next]_vars

---------------------------------------------------------------------------
(* Properties of the model run                                             *)

\* the step is a call of the member function op: the caller counts the call
\* or moves on in its script (going to the next period is no call)
StepOf(op) ==
    /\ call'.op = op
    /\ calls' # calls \/ (pc # "iterate" /\ pc' # pc)

\* C4: an operation called for period P leaves the share, share weight,
\* capacity limit, fixed share, capLimited flag and calibration status of
\* every earlier period as they were.
C4_EarlierPeriodsUntouched ==
    [][(calls' # calls \/ pc' # pc) =>
          \A q \in Periods :
              q < call'.period =>
                  /\ share'[q] = share[q]
                  /\ shrwts'[q] = shrwts[q]
                  /\ capLimit'[q] = capLimit[q]
                  /\ fixedShare'[q] = fixedShare[q]
                  /\ capLimited'[q] = capLimited[q]
                  /\ calibrationStatus'[q] = calibrationStatus[q]]_vars

\* C4 happens: initCalc of a later period has interpolated the share weights
\* forward from a calibrated period whose own weight differs from the one read in
C4_Witness ==
    /\ call.op = "initCalc"
    /\ call.period > 0
    /\ calibrationStatus[call.period - 1]
    /\ shrwts[call.period] = shrwts[call.period - 1]
    /\ shrwts[call.period] # <<call.period + 1, 1>>
    /\ shrwts[0] # shrwts[call.period - 1]

\* C10: adjustForCalibration never writes the share: of the subsector's
\* state only the share weight of the period it is called for changes.
C10_CalibrationKeepsShare ==
    [][StepOf("adjustForCalibration") =>
          /\ share' = share
          /\ \A q \in Periods : q # call'.period => shrwts'[q] = shrwts[q]
          /\ UNCHANGED <<capLimit, fixedShare, capLimited, calibrationStatus,
                         subsectorprice>>]_vars

\* C10 happens: a call has rescaled the share weight of a subsector whose
\* share is not zero
C10_Witness ==
    /\ call.op = "adjustForCalibration"
    /\ Gt(call.subSectorDemand, Zero)
    /\ shrwts[call.period] # call.shrwtBefore
    /\ Gt(share[call.period], Zero)

---------------------------------------------------------------------------
(* SpecTech: one call of calcShare, and so of calcTechShares, on technologies *)
(* with any share weights and any costs, the zero and the negative included.  *)
TechShrwtSet == {Zero, One, <<2, 1>>}
TechCostSet == {<<-1, 1>>, Zero, One, <<2, 1>>, <<10, 1>>, <<20, 1>>}
TechLexpSet == {LOGIT_EXP_DEFAULT, -1}

InitTech ==
    /\ Constructed
    /\ lexp = [p \in Periods |-> -1]
    /\ capLimit = [p \in Periods |-> One]
    /\ shrwts = [p \in Periods |-> One]
    /\ Parsed({}, Zero)
    /\ scaleYear = getendyr
    /\ calibrationActive = TRUE
    /\ \E le \in TechLexpSet :
          techs \in {SameTechs([i \in Techs |-> Tech(w[i], le, Zero, FALSE, Zero)]) :
                        w \in [Techs -> TechShrwtSet]}
    /\ pc = "share"
    /\ drv \in {[period |-> p] : p \in Periods}
    /\ marketInfo = NoMarketInfo

TechCalcShare ==
    /\ pc = "share"
    /\ \E costs \in [Techs -> TechCostSet] : calcShare(drv.period, costs, One)
    /\ pc' = "done"
    /\ UNCHANGED <<calls, drv>>
    /\ UNCHANGED marketInfo

NextTech == TechCalcShare

SpecTech == InitTech /\ [][NextTech]_vars

\* the unnormalized technology shares of the period, from cost and share weight
RawTechShares(period) == [i \in Techs |-> techCalcShare(techs[i][period])]
TechShares(period) == [i \in Techs |-> techs[i][period].share]

\* C1: after calcTechShares(period) the normalized technology shares of the
\* period sum to 1, unless the sum of the unnormalized shares is 0, in which
\* case every normalized share is 0.
C1_TechSharesSumToOne ==
    call.op = "calcShare" =>
        IF Eq(SumTo(RawTechShares(call.period), NumTechs), Zero)
        THEN \A i \in Techs : techs[i][call.period].share = Zero
        ELSE SumTo(TechShares(call.period), NumTechs) = One

\* C1 happens: two technologies got different shares, neither of them 0
C1_Witness ==
    /\ call.op = "calcShare"
    /\ \E i, j \in Techs :
          /\ Gt(techs[i][call.period].share, techs[j][call.period].share)
          /\ Gt(techs[j][call.period].share, Zero)
    /\ SumTo(TechShares(call.period), NumTechs) = One

\* ... and so does its other case: unnormalized shares that are not all 0
\* cancel to a sum of 0
C1_WitnessZeroSum ==
    /\ call.op = "calcShare"
    /\ \E i \in Techs : ~Eq(RawTechShares(call.period)[i], Zero)
    /\ \A i \in Techs : techs[i][call.period].share = Zero

---------------------------------------------------------------------------
(* SpecIter: two solver iterations within one period.  Each iteration is   *)
(* calcShare, normShare, limitShares; the second runs with the costs and   *)
(* the shares of the other subsectors of the first.  Between the two the   *)
(* caller may clear the capacity limit status with setCapLimitStatus.      *)
IterCapLimitSet == {One, <<7, 10>>, <<7, 20>>}
IterOthersSet == {Zero, One, <<3, 1>>}
IterMultiplierSet == {Zero, One, <<3, 2>>}

InitIter ==
    /\ Constructed
    /\ lexp = [p \in Periods |-> -1]
    /\ capLimit \in {[p \in Periods |-> c] : c \in IterCapLimitSet}
    /\ shrwts = [p \in Periods |-> One]
    /\ Parsed({}, Zero)
    /\ scaleYear = getendyr
    /\ calibrationActive = TRUE
    /\ techs \in {PlainTechs, FixedTechs}
    /\ pc = "initCalc"
    /\ drv \in {[period |-> p, costs |-> c, others |-> o,
                 multiplier |-> Zero, share1 |-> Zero, reset |-> FALSE] :
                   p \in Periods, c \in [Techs -> CostSet], o \in IterOthersSet}
    /\ marketInfo = NoMarketInfo

IterInitCalc ==
    /\ pc = "initCalc"
    /\ initCalc(drv.period)
    /\ pc' = "calcShare1"
    /\ UNCHANGED <<calls, drv>>
    /\ UNCHANGED marketInfo

IterCalcShare ==
    /\ pc \in {"calcShare1", "between", "calcShare2"}
    /\ calcShare(drv.period, drv.costs, One)
    /\ pc' = IF pc = "calcShare1" THEN "normShare1" ELSE "normShare2"
    /\ UNCHANGED <<calls, drv>>
    /\ UNCHANGED marketInfo

\* the sum of the unnormalized shares of this subsector and of the others
IterNormShare ==
    /\ pc \in {"normShare1", "normShare2"}
    /\ normShare(Add(share[drv.period], drv.others), drv.period)
    /\ pc' = IF pc = "normShare1" THEN "limitShares1" ELSE "limitShares2"
    /\ UNCHANGED <<calls, drv>>
    /\ UNCHANGED marketInfo

\* the first iteration's multiplier and result are kept for comparison
IterLimitShares1 ==
    /\ pc = "limitShares1"
    /\ \E multiplier \in IterMultiplierSet :
          /\ limitShares(multiplier, drv.period)
          /\ drv' = [drv EXCEPT !.multiplier = multiplier,
                                !.share1 = share'[drv.period]]
    /\ pc' = "between"
    /\ UNCHANGED calls
    /\ UNCHANGED marketInfo

\* the caller clears the capacity limit status for the next iteration
IterSetCapLimitStatus ==
    /\ pc = "between"
    /\ setCapLimitStatus(FALSE, drv.period)
    /\ drv' = [drv EXCEPT !.reset = TRUE]
    /\ pc' = "calcShare2"
    /\ UNCHANGED calls
    /\ UNCHANGED marketInfo

IterLimitShares2 ==
    /\ pc = "limitShares2"
    /\ \E multiplier \in IterMultiplierSet : limitShares(multiplier, drv.period)
    /\ pc' = "done"
    /\ UNCHANGED <<calls, drv>>
    /\ UNCHANGED marketInfo

NextIter ==
    \/ IterInitCalc
    \/ IterCalcShare
    \/ IterNormShare
    \/ IterLimitShares1
    \/ IterSetCapLimitStatus
    \/ IterLimitShares2

SpecIter == InitIter /\ [][NextIter]_vars

\* C2: once limitShares has set the capLimited flag of the period, a later
\* call of limitShares for the period with a multiplier other than 0 does not
\* transform the share again: the share stays as it is or is multiplied by
\* the multiplier.
C2_NoSecondTransform ==
    [][(StepOf("limitShares") /\ capLimited[call'.period]
           /\ ~Eq(call'.multiplier, Zero)) =>
          /\ call'.branch # "transform"
          /\ share'[call'.period] \in
                {share[call'.period], Mul(share[call'.period], call'.multiplier)}
          /\ capLimited'[call'.period]]_vars

\* C2 happens: the second iteration's share is above the limit again, the
\* flag is set from the first, and the share is left as normalized, which is
\* not what the transform would have made it
C2_Witness ==
    /\ pc = "done"
    /\ call.op = "limitShares"
    /\ call.branch = "limited"
    /\ capLimited[call.period]
    /\ ~Eq(call.multiplier, Zero)
    /\ share[call.period] = call.orgShare
    /\ share[call.period] # capLimitTransform(capLimit[call.period], call.orgShare)

\* C3 as stated: the second iteration with the same costs, share weights,
\* sum and multiplier ends with the share of the first, whatever state the
\* first has left.
C3_SecondRunSameShare ==
    (pc = "done" /\ call.multiplier = drv.multiplier) =>
        share[drv.period] = drv.share1

\* C3 as the code has it: the second iteration ends with the share of the
\* first if the caller has cleared the capacity limit status in between.
C3_SecondRunSameShareAfterReset ==
    (pc = "done" /\ call.multiplier = drv.multiplier /\ drv.reset) =>
        /\ share[drv.period] = drv.share1
        /\ capLimited[drv.period] => call.branch = "transform"

\* C3 happens: both iterations have transformed the share, the second after
\* the status was cleared
C3_Witness ==
    /\ pc = "done"
    /\ drv.reset
    /\ call.multiplier = drv.multiplier
    /\ call.branch = "transform"
    /\ share[drv.period] = drv.share1
    /\ share[drv.period] # call.orgShare

---------------------------------------------------------------------------
(* SpecCal: one calibration step within one period.  The share is computed *)
(* and normalized, or set from the fixed output by adjShares; then         *)
(* adjustForCalibration is called once with any sector totals, and the     *)
(* share is computed and normalized again.                                 *)
CalShrwtSet == {Zero, One, <<2, 1>>}
CalValueSet == {<<30, 1>>, <<-30, 1>>}
CalDemandSet == {Zero, <<100, 1>>}
CalFixedSet == {Zero, <<40, 1>>, <<120, 1>>}
CalTotalSet == {Zero, <<50, 1>>, <<80, 1>>}

InitCal ==
    /\ Constructed
    /\ lexp = [p \in Periods |-> -1]
    /\ capLimit = [p \in Periods |-> One]
    /\ shrwts \in {[p \in Periods |-> w] : w \in CalShrwtSet}
    /\ \/ Parsed({}, Zero)
       \/ \E value \in CalValueSet : Parsed(Periods, value)
    /\ scaleYear = getendyr
    /\ calibrationActive = TRUE
    /\ techs \in {PlainTechs, FixedTechs, CalTechs}
    /\ pc = "initCalc"
    /\ drv \in {[period |-> p, costs |-> c, others |-> One, normalized |-> FALSE,
                 sum |-> Zero, price |-> Zero, adj |-> [op |-> "none"]] :
                   p \in {0, MaxPer - 1},
                   c \in {[i \in Techs |-> One], [i \in Techs |-> <<i, 1>>]}}
    /\ marketInfo = NoMarketInfo

CalInitCalc ==
    /\ pc = "initCalc"
    /\ initCalc(drv.period)
    /\ pc' = "share"
    /\ UNCHANGED <<calls, drv>>
    /\ UNCHANGED marketInfo

CalCalcShare ==
    /\ pc \in {"share", "reshare"}
    /\ calcShare(drv.period, drv.costs, One)
    /\ pc' = IF pc = "share" THEN "norm" ELSE "renorm"
    /\ UNCHANGED <<calls, drv>>
    /\ UNCHANGED marketInfo

\* the sum of the unnormalized shares of this subsector and of the others
CalNormShare ==
    /\ pc = "norm"
    /\ normShare(Add(share[drv.period], drv.others), drv.period)
    /\ drv' = [drv EXCEPT !.normalized = TRUE,
                          !.sum = Add(share[drv.period], drv.others)]
    /\ pc' = "cal"
    /\ UNCHANGED calls
    /\ UNCHANGED marketInfo

\* a subsector with fixed output gets its share from adjShares
CalAdjShares ==
    /\ pc = "share"
    /\ Gt(getFixedOutput(drv.period), Zero)
    /\ adjShares(<<100, 1>>, <<1, 2>>, <<40, 1>>, drv.period)
    /\ pc' = "cal"
    /\ UNCHANGED <<calls, drv>>
    /\ UNCHANGED marketInfo

\* the caller keeps the locals of the call and the price at the call
CalAdjustForCalibration ==
    /\ pc = "cal"
    /\ \E sectorDemand \in CalDemandSet, totalfixedOutput \in CalFixedSet,
          totalCalOutputs \in CalTotalSet, allFixedOutput \in BOOLEAN :
          adjustForCalibration(sectorDemand, totalfixedOutput, totalCalOutputs,
                               allFixedOutput, drv.period)
    /\ drv' = [drv EXCEPT !.adj = call', !.price = subsectorprice[drv.period]]
    /\ pc' = "reshare"
    /\ UNCHANGED calls
    /\ UNCHANGED marketInfo

\* the sum after the call: the other subsectors' shares are as they were, or
\* they have changed so that the sum is as it was
CalRenormShare ==
    /\ pc = "renorm"
    /\ \E sum \in {Add(share[drv.period], drv.others), drv.sum} :
          normShare(sum, drv.period)
    /\ pc' = "done"
    /\ UNCHANGED <<calls, drv>>
    /\ UNCHANGED marketInfo

NextCal ==
    \/ CalInitCalc
    \/ CalCalcShare
    \/ CalNormShare
    \/ CalAdjShares
    \/ CalAdjustForCalibration
    \/ CalRenormShare

SpecCal == InitCal /\ [][NextCal]_vars

\* adjustForCalibration has just returned
Calibrated == call.op = "adjustForCalibration"

\* C5 (refuted by the code): whatever the inputs of adjustForCalibration,
\* the share weight of the period is finite and not below 0 when it returns.
C5_ShareWeightFinite ==
    Calibrated =>
        /\ IsFinite(shrwts[call.period])
        /\ Ge(shrwts[call.period], Zero)

\* the subsector's output of the period at sector demand d
Output(d) == Mul(share[drv.period], d)

\* the share before the call was computed and normalized from the inputs of
\* the recomputation, and the subsector had output to scale
RoundTrip ==
    /\ pc = "done"
    /\ drv.normalized
    /\ Gt(drv.adj.subSectorDemand, Zero)

Max(a, b) == IF Gt(a, b) THEN a ELSE b

ScenarioC ==
    /\ Calibrated
    /\ call.sectorDemand = <<100, 1>>
    /\ call.totalfixedOutput = <<40, 1>>
    /\ call.totalCalOutputs = <<50, 1>>
    /\ ~call.allFixedOutput

C9_ResetWhenTargetNonzero ==
    (Calibrated /\ Eq(call.shrwtBefore, Zero) /\ ~Eq(call.target, Zero)) =>
        call.shrwtAtScaling = One

\* C9 as the code has it: a share weight of 0 is reset to 1 before the
\* scaling when the target is above 0, so that the scaling is applied to 1;
\* with a target of 0 or below it stays 0.
C9_ResetWhenTargetPositive ==
    (Calibrated /\ Eq(call.shrwtBefore, Zero)) =>
        IF Gt(call.target, Zero)
        THEN /\ call.shrwtAtScaling = One
             /\ call.shrwtScaled =
                   IF Gt(call.subSectorDemand, Zero)
                   THEN Div(call.calOutputSubsect, call.subSectorDemand)
                   ELSE One
        ELSE call.shrwtAtScaling = Zero

\* C9 happens: a subsector with share weight 0, a target above 0 and a share
\* above 0 ends with the scale value as its share weight
C9_Witness ==
    /\ Calibrated
    /\ Eq(call.shrwtBefore, Zero)
    /\ Gt(call.target, Zero)
    /\ Gt(call.subSectorDemand, Zero)
    /\ shrwts[call.period] = Div(call.calOutputSubsect, call.subSectorDemand)
    /\ shrwts[call.period] \notin {Zero, One}

\* C20: in adjustForCalibration, when share[period] * sectorDemand is
\* positive the share weight, as it is after the reset of a zero weight, is
\* multiplied by the calibration target after any rescaling, divided by
\* share[period] * sectorDemand; when the product is zero or negative the
\* share weight is not scaled.
C20_ScaledByTargetOverDemand ==
    [][StepOf("adjustForCalibration") =>
          LET period == call'.period
              product == Mul(share[period], call'.sectorDemand)
              scaled == IF Gt(product, Zero)
                        THEN Mul(call'.shrwtAtScaling,
                                 Div(call'.calOutputSubsect, product))
                        ELSE call'.shrwtAtScaling
          IN  /\ call'.shrwtScaled = scaled
              /\ shrwts'[period] = IF Lt(scaled, Zero) THEN One ELSE scaled]_vars

\* C20 happens: a rescaled target over a positive demand has changed the
\* share weight by a factor that is neither 0 nor 1
C20_Witness ==
    /\ call.op = "adjustForCalibration"
    /\ Gt(Mul(share[call.period], call.sectorDemand), Zero)
    /\ call.calOutputSubsect # call.target
    /\ Gt(call.calOutputSubsect, Zero)
    /\ Gt(call.shrwtAtScaling, Zero)
    /\ call.shrwtScaled # call.shrwtAtScaling
    /\ shrwts[call.period] = call.shrwtScaled

\* the technologies of the period after the technology-level adjustment of
\* adjustForCalibration with the target calOutput
TechsAdjusted(period, numberTechs, calOutput) ==
    [i \in Techs |-> [techs[i] EXCEPT ![period] =
        IF numberTechs > 1 /\ techAvailable(@)
        THEN techAdjustForCalibration(@, calOutput) ELSE @]]

\* C25: if the scaling step of adjustForCalibration produces a negative
\* share weight, the share weight of the period is reset to 1, not to 0, and
\* a diagnostic is written; the call still returns and goes on to the
\* technology-level adjustment.
C25_NegativeWeightResetToOne ==
    [][(StepOf("adjustForCalibration") /\ Lt(call'.shrwtScaled, Zero)) =>
          /\ shrwts'[call'.period] = One
          /\ call'.diagnostic
          /\ call'.numberTechs = getNumberAvailTechs(call'.period)
          /\ techs' = TechsAdjusted(call'.period, call'.numberTechs,
                                    call'.calOutputSubsect)]_vars

\* C25 happens: a negative target over a positive demand has made the share
\* weight negative, it is 1 now, and the technologies, more than one of them
\* available, were handed the target
C25_Witness ==
    /\ call.op = "adjustForCalibration"
    /\ Gt(call.subSectorDemand, Zero)
    /\ Lt(call.calOutputSubsect, Zero)
    /\ Lt(call.shrwtScaled, Zero)
    /\ call.diagnostic
    /\ call.numberTechs > 1
    /\ shrwts[call.period] = One


---------------------------------------------------------------------------
(* SpecInterp: the share weight interpolation.  The share weights, the     *)
(* calibrated periods, the scale year and the configuration flag are read  *)
(* in; initCalc runs for the periods in order; interpolateShareWeights is  *)
(* called once at any point with any period, or shareWeightLinearInterpFn  *)
(* once at the end with any periods.                                       *)
InterpShrwtSet == {<<-1, 1>>, Zero, <<3, 1>>}
InterpScaleYearSet == {0, 1990, getendyr}

InitInterp ==
    /\ Constructed
    /\ lexp = [p \in Periods |-> -1]
    /\ capLimit = [p \in Periods |-> One]
    /\ shrwts \in [Periods -> InterpShrwtSet]
    /\ \E calPeriods \in {{}, {0}, {MaxPer - 2}, Periods} :
          Parsed(calPeriods, <<30, 1>>)
    /\ scaleYear \in InterpScaleYearSet
    /\ calibrationActive \in BOOLEAN
    /\ techs = PlainTechs
    /\ pc = "initCalc"
    /\ drv = [period |-> 0]
    /\ marketInfo = NoMarketInfo

InterpInitCalc ==
    /\ pc = "initCalc"
    /\ initCalc(drv.period)
    /\ drv' = [drv EXCEPT !.period = @ + 1]
    /\ pc' = IF drv.period + 1 < MaxPer THEN "initCalc" ELSE "interpolate"
    /\ UNCHANGED calls
    /\ UNCHANGED marketInfo

InterpInterpolateShareWeights ==
    /\ pc \in {"initCalc", "interpolate"}
    /\ \E period \in Periods : interpolateShareWeights(period)
    /\ pc' = "done"
    /\ UNCHANGED <<calls, drv>>
    /\ UNCHANGED marketInfo

InterpShareWeightLinearInterpFn ==
    /\ pc = "interpolate"
    /\ \E beginPeriod, endPeriod \in Periods :
          /\ shrwts' = shareWeightLinearInterpFn(shrwts, beginPeriod, endPeriod)
          /\ call' = [op |-> "shareWeightLinearInterpFn", period |-> beginPeriod,
                      beginPeriod |-> beginPeriod, endPeriod |-> endPeriod,
                      before |-> shrwts]
    /\ pc' = "done"
    /\ UNCHANGED <<share, capLimit, fixedShare, capLimited, calibrationStatus,
                   doCalibration, calOutputValue, subsectorprice, lexp,
                   fuelPrefElasticity, scaleYear, calibrationActive, techs,
                   calls, drv>>
    /\ UNCHANGED marketInfo

NextInterp ==
    \/ InterpInitCalc
    \/ InterpInterpolateShareWeights
    \/ InterpShareWeightLinearInterpFn

SpecInterp == InitInterp /\ [][NextInterp]_vars

\* C11: shareWeightLinearInterpFn(p, p) sets the share weight of every
\* period from p + 1 through the last period to the share weight of period
\* p and leaves the share weights of p and of the earlier periods as they
\* were.
C11_HoldConstant ==
    [][(StepOf("shareWeightLinearInterpFn")
           /\ call'.beginPeriod = call'.endPeriod) =>
          \A q \in Periods :
              shrwts'[q] = IF q > call'.beginPeriod
                           THEN shrwts[call'.beginPeriod]
                           ELSE shrwts[q]]_vars

\* C11 happens: shareWeightLinearInterpFn(p, p) has been called with later
\* periods to fill, all share weights from p on are equal, and the weight
\* read in for the last period was another one
C11_Witness ==
    /\ call.op = "shareWeightLinearInterpFn"
    /\ call.beginPeriod = call.endPeriod
    /\ call.beginPeriod + 1 < MaxPer
    /\ \A q \in Periods : q > call.beginPeriod => shrwts[q] = shrwts[call.beginPeriod]
    /\ \A q \in Periods : q > call.beginPeriod => call.before[q] # shrwts[q]
    /\ \A q \in Periods : q <= call.beginPeriod => call.before[q] = shrwts[q]

\* the period of the scale year, as interpolateShareWeights takes it
ScaleYearPeriod == IF scaleYear >= getstartyr THEN getyr_to_per(scaleYear) ELSE 0

\* the share weights w interpolated linearly from period b to period e, or
\* kept at the weight of b through the last period when e = b
Interpolated(w, b, e) ==
    [q \in Periods |->
        IF e = b /\ q > b THEN w[b]
        ELSE IF b < q /\ q < e
             THEN Add(w[b], Mul(<<q - b, 1>>,
                                Div(Sub(w[e], w[b]), <<e - b, 1>>)))
        ELSE w[q]]

\* C12 as stated: interpolateShareWeights(period) interpolates whenever the
\* previous period is calibrated, CalibrationActive is on, the scale year
\* period is not before period - 1 and the share weight of period - 1 is at
\* least 0; otherwise it changes no share weight.
C12_InterpolatesAfterCalibration ==
    [][(StepOf("interpolateShareWeights") /\ call'.period >= 1) =>
          LET p == call'.period
          IN  IF /\ calibrationStatus[p - 1]
                 /\ calibrationActive
                 /\ ScaleYearPeriod >= p - 1
                 /\ Ge(shrwts[p - 1], Zero)
              THEN shrwts' = Interpolated(shrwts, p - 1, ScaleYearPeriod)
              ELSE shrwts' = shrwts]_vars

\* C12 as the code has it: interpolateShareWeights(period) interpolates
\* under these conditions only for a period after the period of 1990; for
\* the period of 1990 and the periods before it changes no share weight.
C12_InterpolatesAfter1990 ==
    [][StepOf("interpolateShareWeights") =>
          LET p == call'.period
          IN  IF /\ p > getyr_to_per(1990)
                 /\ calibrationStatus[p - 1]
                 /\ calibrationActive
                 /\ ScaleYearPeriod >= p - 1
                 /\ Ge(shrwts[p - 1], Zero)
              THEN shrwts' = Interpolated(shrwts, p - 1, ScaleYearPeriod)
              ELSE shrwts' = shrwts]_vars

\* C12 happens: a call for a period after 1990 whose previous period was
\* calibrated has changed the share weight of the period to that of the
\* previous period
C12_Witness ==
    /\ call.op = "interpolateShareWeights"
    /\ pc = "done"
    /\ call.period > getyr_to_per(1990)
    /\ calibrationStatus[call.period - 1]
    /\ calibrationActive
    /\ shrwts[call.period] = shrwts[call.period - 1]
    /\ shrwts[call.period] # call.before[call.period]
    /\ shrwts[call.period - 1] = call.before[call.period - 1]

ReachesWeightTest(p) ==
    /\ p > getyr_to_per(1990)
    /\ calibrationStatus[p - 1]
    /\ calibrationActive
    /\ ScaleYearPeriod >= p - 1

---------------------------------------------------------------------------
(* Properties of adjShares, in the model run                               *)

\* the fixed output of the technologies of the period, added up
TechFixedOutput(period) ==
    SumTo([i \in Techs |-> techs[i][period].fixedOutput], NumTechs)

\* C13: in adjShares with totalfixedOutput > 0 and demand > 0 a subsector
\* whose technologies have fixed output gets the share (sum of their fixed
\* output) / demand, whatever its share was.
C13_FixedShareFromOutput ==
    [][(StepOf("adjShares") /\ Gt(call'.totalfixedOutput, Zero)
           /\ Gt(call'.demand, Zero)
           /\ ~Eq(TechFixedOutput(call'.period), Zero)) =>
          share'[call'.period] =
             Div(TechFixedOutput(call'.period), call'.demand)]_vars

\* C13 happens: a share computed from the costs has been replaced by 40/100
C13_Witness ==
    /\ call.op = "adjShares"
    /\ Gt(call.totalfixedOutput, Zero)
    /\ call.demand = <<100, 1>>
    /\ TechFixedOutput(call.period) = <<40, 1>>
    /\ share[call.period] = <<2, 5>>
    /\ Gt(call.before, Zero)
    /\ call.before # share[call.period]

\* C14 as stated: in adjShares with demand > 0 a subsector whose
\* technologies have no fixed output gets its share multiplied by shareRatio.
C14_VariableShareScaled ==
    [][(StepOf("adjShares") /\ Gt(call'.demand, Zero)
           /\ Eq(TechFixedOutput(call'.period), Zero)) =>
          share'[call'.period] = Mul(share[call'.period], call'.shareRatio)]_vars

\* C14 as the code has it: the share is multiplied by shareRatio when the
\* sector's totalfixedOutput is above 0; when it is not, the share stays as
\* it is.
C14_VariableShareScaledIfSectorFixed ==
    [][(StepOf("adjShares") /\ Gt(call'.demand, Zero)
           /\ Eq(TechFixedOutput(call'.period), Zero)) =>
          share'[call'.period] =
             IF Gt(call'.totalfixedOutput, Zero)
             THEN Mul(share[call'.period], call'.shareRatio)
             ELSE share[call'.period]]_vars

\* C14 happens: a share above 0 of a subsector without fixed output has been
\* multiplied by the shareRatio of 1/2
C14_Witness ==
    /\ call.op = "adjShares"
    /\ Gt(call.demand, Zero)
    /\ Gt(call.totalfixedOutput, Zero)
    /\ Eq(TechFixedOutput(call.period), Zero)
    /\ Gt(call.before, Zero)
    /\ share[call.period] = Mul(call.before, call.shareRatio)
    /\ share[call.period] # call.before

\* C28: in adjShares with a sector totalfixedOutput above 0 and a demand that
\* is not above 0, the share of the period becomes 0 whether or not the
\* subsector has fixed output; nothing is divided by the demand, so the share
\* is the number 0 and the shares of the other periods are left alone.
C28_ZeroShareWithoutDemand ==
    [][(StepOf("adjShares") /\ Gt(call'.totalfixedOutput, Zero)
                            /\ ~Gt(call'.demand, Zero))
          => /\ share'[call'.period] = Zero
             /\ \A p \in Periods \ {call'.period} : share'[p] = share[p]]_vars

\* C28 happens: a subsector with fixed output and a share above 0 meets a
\* demand of 0 and its share is 0 afterwards
C28_Witness ==
    /\ call.op = "adjShares"
    /\ Gt(call.totalfixedOutput, Zero)
    /\ Eq(call.demand, Zero)
    /\ Gt(call.sumSubsectfixedOutput, Zero)
    /\ Gt(call.before, Zero)
    /\ share[call.period] = Zero

\* the same for a subsector without fixed output
C28_WitnessNoFixedOutput ==
    /\ call.op = "adjShares"
    /\ Gt(call.totalfixedOutput, Zero)
    /\ Eq(call.demand, Zero)
    /\ Eq(call.sumSubsectfixedOutput, Zero)
    /\ Gt(call.before, Zero)
    /\ share[call.period] = Zero

\* and for a demand below 0
C28_WitnessNegativeDemand ==
    /\ call.op = "adjShares"
    /\ Gt(call.totalfixedOutput, Zero)
    /\ Lt(call.demand, Zero)
    /\ Gt(call.before, Zero)
    /\ share[call.period] = Zero

---------------------------------------------------------------------------
(* SpecFixed: the fixed output query.  The share weights, the calibrated   *)
(* periods and the technologies, each plain, with a fixed output or        *)
(* calibrated, are read in; the caller asks allOuputFixed once for any     *)
(* period.                                                                 *)
FixedShrwtSet == {Zero, One}
FixedTechSet == {PlainTech, FixedTech, CalTech}

InitFixed ==
    /\ Constructed
    /\ lexp = [p \in Periods |-> -1]
    /\ capLimit = [p \in Periods |-> One]
    /\ shrwts \in [Periods -> FixedShrwtSet]
    /\ \E calPeriods \in {{}, {0}, {MaxPer - 2}, Periods} :
          Parsed(calPeriods, <<30, 1>>)
    /\ scaleYear = 0
    /\ calibrationActive = FALSE
    /\ \E f \in [Techs -> FixedTechSet] : techs = SameTechs(f)
    /\ pc = "query"
    /\ drv = [period |-> 0]
    /\ marketInfo = NoMarketInfo

FixedAllOuputFixed ==
    /\ pc = "query"
    /\ \E period \in Periods :
          call' = [op |-> "allOuputFixed", period |-> period,
                   result |-> allOuputFixed(period)]
    /\ pc' = "done"
    /\ UNCHANGED <<group, techs, calls, drv>>
    /\ UNCHANGED marketInfo

NextFixed == FixedAllOuputFixed

SpecFixed == InitFixed /\ [][NextFixed]_vars

\* the output of technology i is fixed or calibrated in the period
FixedOrCalibrated(i, period) ==
    \/ techs[i][period].fixedOutput # Zero
    \/ techs[i][period].calStatus

\* C15: allOuputFixed(period) returns true exactly when every technology's
\* output in the period is fixed or calibrated, or the subsector's share
\* weight for the period is 0, or the subsector itself is calibrated; it
\* returns false as soon as one technology of a subsector with nonzero share
\* weight and no subsector calibration is neither fixed nor calibrated.
C15_AllFixedExactly ==
    call.op = "allOuputFixed" =>
        LET period == call.period
            subsectorFixed == doCalibration[period] \/ shrwts[period] = Zero
            allTechs == \A i \in Techs : FixedOrCalibrated(i, period)
        IN  /\ call.result <=> (allTechs \/ subsectorFixed)
            /\ (~subsectorFixed /\ ~allTechs) => ~call.result

\* asked of a subsector with nonzero share weight and no calibration value
\* whose technologies are one fixed and one not: the answer is false
C15_Witness ==
    /\ call.op = "allOuputFixed"
    /\ ~doCalibration[call.period]
    /\ shrwts[call.period] # Zero
    /\ \E i, j \in Techs : /\ FixedOrCalibrated(i, call.period)
                           /\ ~FixedOrCalibrated(j, call.period)
    /\ ~call.result

---------------------------------------------------------------------------
(* SpecCap: the capacity limit transformation.  limitShares hands the      *)
(* capacity limit read in for the period and the current share, a          *)
(* normalized share or one a sector multiplier has raised, to              *)
(* capLimitTransform.                                                      *)
CapLimitSet == {<<1, 20>>, <<1, 4>>, <<1, 2>>, <<9, 10>>, Sub(One, SMALL_NUM), One, <<2, 1>>}
CapShareSet == {Zero, <<1, 100>>, <<1, 4>>, <<1, 2>>, <<3, 4>>, One, <<3, 2>>, <<5, 1>>}

InitCap ==
    /\ Constructed
    /\ lexp = [p \in Periods |-> -1]
    /\ shrwts = [p \in Periods |-> One]
    /\ \E c \in CapLimitSet : capLimit = [p \in Periods |-> c]
    /\ Parsed({}, Zero)
    /\ scaleYear = 0
    /\ calibrationActive = FALSE
    /\ techs = PlainTechs
    /\ pc = "transform"
    /\ drv \in [period : {0}, share : CapShareSet]
    /\ marketInfo = NoMarketInfo

CapCapLimitTransform ==
    /\ pc = "transform"
    /\ call' = [op |-> "capLimitTransform", period |-> drv.period,
                capLimit |-> capLimit[drv.period], orgShare |-> drv.share,
                newShare |-> capLimitTransform(capLimit[drv.period], drv.share)]
    /\ pc' = "done"
    /\ UNCHANGED <<group, techs, calls, drv>>
    /\ UNCHANGED marketInfo

NextCap == CapCapLimitTransform

SpecCap == InitCap /\ [][NextCap]_vars

C17_BelowLimitAndMonotone ==
    (call.op = "capLimitTransform" /\ Lt(call.capLimit, One)
                                   /\ Ge(call.orgShare, Zero))
        => /\ Lt(call.newShare, call.capLimit)
           /\ \A larger \in CapShareSet :
                 Ge(larger, call.orgShare) =>
                     Ge(capLimitTransform(call.capLimit, larger), call.newShare)

---------------------------------------------------------------------------
(* SpecShare: one call of calcShare on a subsector with any share weight,  *)
(* logit exponent and fuel preference elasticity read in, for technologies *)
(* with any costs, the zero and the negative included, and any scaled GDP  *)
(* per capita.                                                             *)
ShareShrwtSet == {Zero, One, <<2, 1>>}
ShareLexpSet == {LOGIT_EXP_DEFAULT, -1, 0}
ShareElasticitySet == {-1, 0, 1}
ShareTechShrwtSet == {Zero, One}
ShareCostSet == {<<-1, 1>>, Zero, One, <<2, 1>>}
ShareGdpSet == {One, <<2, 1>>}

InitShare ==
    /\ share = [p \in Periods |-> Zero]
    /\ fixedShare = [p \in Periods |-> Zero]
    /\ capLimited = [p \in Periods |-> FALSE]
    /\ calibrationStatus = [p \in Periods |-> FALSE]
    /\ subsectorprice = [p \in Periods |-> Zero]
    /\ call = [op |-> "none", period |-> 0]
    /\ calls = 0
    /\ capLimit = [p \in Periods |-> One]
    /\ \E w \in ShareShrwtSet : shrwts = [p \in Periods |-> w]
    /\ \E le \in ShareLexpSet : lexp = [p \in Periods |-> le]
    /\ \E el \in ShareElasticitySet : fuelPrefElasticity = [p \in Periods |-> el]
    /\ Parsed({}, Zero)
    /\ scaleYear = 0
    /\ calibrationActive = FALSE
    /\ techs \in {SameTechs([i \in Techs |-> Tech(w[i], -1, Zero, FALSE, Zero)]) :
                     w \in [Techs -> ShareTechShrwtSet]}
    /\ pc = "share"
    /\ drv = [period |-> 0]
    /\ marketInfo = NoMarketInfo

ShareCalcShare ==
    /\ pc = "share"
    /\ \E period \in Periods, costs \in [Techs -> ShareCostSet], gdp \in ShareGdpSet :
          calcShare(period, costs, gdp)
    /\ pc' = "done"
    /\ UNCHANGED <<calls, drv>>
    /\ UNCHANGED marketInfo

NextShare == ShareCalcShare

SpecShare == InitShare /\ [][NextShare]_vars

\* the price calcPrice computes: the technology-share-weighted sum of the
\* technology costs
WeightedCost(period) ==
    SumTo([i \in Techs |-> Mul(techs[i][period].share,
                               techs[i][period].techcost)], NumTechs)

\* C18: calcShare sets the subsector's share for the period to exactly 0
\* whenever the price computed by calcPrice is exactly 0, whatever the share
\* weight, logit exponent and fuel preference elasticity are; the power-law
\* formula is evaluated only for a nonzero price.
C18_ZeroPriceZeroShare ==
    call.op = "calcShare" =>
        LET period == call.period
            price == WeightedCost(period)
        IN  /\ subsectorprice[period] = price
            /\ price = Zero => share[period] = Zero
            /\ price # Zero =>
                   share[period] =
                       Mul(Mul(shrwts[period], PowInt(price, lexp[period])),
                           PowInt(call.gdp, fuelPrefElasticity[period]))

\* a zero price, from costs that are not all zero, on a subsector whose
\* formula would not give 0: nonzero share weight and a negative exponent
C18_Witness ==
    /\ call.op = "calcShare"
    /\ subsectorprice[call.period] = Zero
    /\ \E i \in Techs : call.costs[i] # Zero
    /\ shrwts[call.period] # Zero
    /\ lexp[call.period] < 0
    /\ fuelPrefElasticity[call.period] # 0
    /\ share[call.period] = Zero

---------------------------------------------------------------------------
(* FoodProductionTechnology: a technology object of the subsector, one per *)
(* technology and period, with the members initCalc reads and writes.  The *)
(* land allocator calls of initCalc change the land allocator only.        *)
NoYield == <<-1, 1>>

\* the object after XMLParse and completeInit: aYear and variableCost read
\* in, calObservedYield set by setCalLandValues or left at -1
FoodTech(aName, aYear, cost, observedYield) ==
    [mName |-> aName, year |-> aYear, variableCost |-> cost,
     calObservedYield |-> observedYield, mHarvestedToCroppedLandRatio |-> One]

calcDiscountFactor == One

calVarCostName(mName, aRegionName) ==
    "calVarCost-" \o mName \o "-" \o aRegionName

\* IInfo::getDouble and IInfo::setDouble; an item never set reads as 0
getDouble(info, name) == IF name \in DOMAIN info THEN info[name] ELSE Zero
setDouble(info, name, value) ==
    [n \in DOMAIN info \cup {name} |-> IF n = name THEN value ELSE info[n]]

\* the technology's year is the year of the period
isNewInvestment(t, aPeriod) == getyr_to_per(t.year) = aPeriod

\* faulty variant of calVarCost: always the value of the market info
calVarCostAlwaysRead(t, info, aRegionName, unmanagedRate) ==
    getDouble(info, calVarCostName(t.mName, aRegionName))

\* calVarCost: calculated from the calibration price and the observed yield,
\* or read from the market info of the period
calVarCost(t, info, aRegionName, unmanagedRate) ==
    IF t.calObservedYield # NoYield
    THEN Sub(getDouble(info, "calPrice"),
             Div(Div(unmanagedRate, calcDiscountFactor),
                 Mul(t.calObservedYield, t.mHarvestedToCroppedLandRatio)))
    ELSE getDouble(info, calVarCostName(t.mName, aRegionName))

\* FoodProductionTechnology::initCalc of the object techs[ i ][ v ]
foodInitCalc(i, v, aRegionName, aPeriod, unmanagedRate) ==
    LET t == techs[i][v]
        cost == calVarCost(t, marketInfo[aPeriod], aRegionName, unmanagedRate)
    IN  IF ~isNewInvestment(t, aPeriod)
        THEN /\ call' = [op |-> "FoodProductionTechnology::initCalc",
                         period |-> aPeriod, tech |-> i, vintage |-> v,
                         newInvestment |-> FALSE]
             /\ UNCHANGED <<techs, marketInfo>>
        ELSE /\ techs' = [techs EXCEPT ![i][v].variableCost =
                             IF Gt(cost, SMALL_NUM) THEN cost ELSE @]
             /\ marketInfo' =
                   IF aPeriod + 1 < MaxPer
                   THEN [marketInfo EXCEPT ![aPeriod + 1] =
                            setDouble(@, calVarCostName(t.mName, aRegionName), cost)]
                   ELSE marketInfo
             /\ call' = [op |-> "FoodProductionTechnology::initCalc",
                         period |-> aPeriod, tech |-> i, vintage |-> v,
                         newInvestment |-> TRUE, calVarCost |-> cost]

---------------------------------------------------------------------------
(* SpecFood: the periods in order; in each the subsector calls initCalc of *)
(* every technology object, technology after technology and year after     *)
(* year.  Each object has an observed yield or none; the calibration price *)
(* of each period is in the market info and the land allocator's           *)
(* unmanaged land rate is the same throughout.                             *)
FoodYieldSet == {NoYield, <<2, 1>>}
FoodRateSet == {<<4, 1>>, <<40, 1>>}
FoodNames == [i \in Techs |-> IF i = 1 THEN "Corn" ELSE "Crop" \o ToString(i)]
FoodReadInCost == <<3, 1>>
FoodCalPrice(period) == <<10 + period, 1>>
FoodYear(period) == StartYr + TimeStep * period

InitFood ==
    /\ Constructed
    /\ lexp = [p \in Periods |-> LOGIT_EXP_DEFAULT]
    /\ capLimit = [p \in Periods |-> One]
    /\ shrwts = [p \in Periods |-> One]
    /\ Parsed({}, Zero)
    /\ scaleYear = 0
    /\ calibrationActive = FALSE
    /\ \E yield \in [Techs -> [Periods -> FoodYieldSet]] :
          techs = [i \in Techs |-> [p \in Periods |->
                      FoodTech(FoodNames[i], FoodYear(p), FoodReadInCost, yield[i][p])]]
    /\ marketInfo = [p \in Periods |-> ("calPrice" :> FoodCalPrice(p))]
    /\ pc = "initCalc"
    /\ \E rate \in FoodRateSet :
          drv = [period |-> 0, tech |-> 1, vintage |-> 0, region |-> "USA",
                 rate |-> rate]

FoodInitCalc ==
    /\ pc = "initCalc"
    /\ foodInitCalc(drv.tech, drv.vintage, drv.region, drv.period, drv.rate)
    /\ drv' = IF drv.vintage + 1 < MaxPer
              THEN [drv EXCEPT !.vintage = @ + 1]
              ELSE IF drv.tech < NumTechs
              THEN [drv EXCEPT !.tech = @ + 1, !.vintage = 0]
              ELSE [drv EXCEPT !.period = @ + 1, !.tech = 1, !.vintage = 0]
    /\ pc' = IF drv.vintage + 1 = MaxPer /\ drv.tech = NumTechs
                                        /\ drv.period + 1 = MaxPer
             THEN "done" ELSE "initCalc"
    /\ UNCHANGED <<group, calls>>

NextFood == FoodInitCalc

SpecFood == InitFood /\ [][NextFood]_vars

\* the calibrated variable cost technology i calculates in a period in which
\* it has an observed yield
CalculatedCost(i, period) ==
    Sub(FoodCalPrice(period),
        Div(drv.rate, Mul(techs[i][period].calObservedYield,
                          techs[i][period].mHarvestedToCroppedLandRatio)))

\* technology i has an observed yield in period q and none in q + 1 .. p
CarriedFrom(i, q, p) ==
    /\ q < p
    /\ techs[i][q].calObservedYield # NoYield
    /\ \A r \in (q + 1) .. p : techs[i][r].calObservedYield = NoYield

\* initCalc of a new-investment period stores the cost it calculated or read
\* for the next period, and nothing in the last period
StoresForNextPeriod ==
    (call'.op = "FoodProductionTechnology::initCalc" /\ call'.newInvestment) =>
        LET aPeriod == call'.period
            i == call'.tech
            name == calVarCostName(FoodNames[i], drv.region)
            cost == IF techs[i][aPeriod].calObservedYield # NoYield
                    THEN CalculatedCost(i, aPeriod)
                    ELSE getDouble(marketInfo[aPeriod], name)
        IN  /\ call'.calVarCost = cost
            /\ IF aPeriod + 1 < MaxPer
               THEN /\ name \in DOMAIN marketInfo'[aPeriod + 1]
                    /\ marketInfo'[aPeriod + 1][name] = cost
                    /\ \A p \in Periods : \A n \in DOMAIN marketInfo[p] :
                          (p # aPeriod + 1 \/ n # name)
                              => /\ n \in DOMAIN marketInfo'[p]
                                 /\ marketInfo'[p][n] = marketInfo[p][n]
               ELSE marketInfo' = marketInfo

\* the cost calculated in a period with an observed yield is the one stored
\* for, and read in, every later period up to the next observed yield
CarriedUnchanged ==
    \A i \in Techs, q \in Periods, p \in Periods :
        CarriedFrom(i, q, p) =>
            LET name == calVarCostName(FoodNames[i], drv.region)
            IN  /\ name \in DOMAIN marketInfo[p]
                   => marketInfo[p][name] = CalculatedCost(i, q)
                /\ (/\ call.op = "FoodProductionTechnology::initCalc"
                    /\ call.newInvestment
                    /\ call.tech = i
                    /\ call.period = p)
                   => call.calVarCost = CalculatedCost(i, q)

\* C19: FoodProductionTechnology::initCalc for a new-investment period P
\* stores the calibrated variable cost it calculated or read in P under the
\* name built from the technology name and the region in the market info of
\* period P + 1 whenever P + 1 is a model period, and writes nothing for the
\* last period; a period without an observed yield reads that stored value,
\* so the value set in a period with an observed yield is carried unchanged
\* to every later period without one whose initCalc runs.
C19_CostCarriedForward ==
    [][StoresForNextPeriod]_vars /\ []CarriedUnchanged

\* initCalc of the last period, two periods after the observed yield, has
\* read the cost calculated then and made it the variable cost
C19_Witness ==
    /\ call.op = "FoodProductionTechnology::initCalc"
    /\ call.newInvestment
    /\ call.period = MaxPer - 1
    /\ CarriedFrom(call.tech, MaxPer - 3, MaxPer - 1)
    /\ call.calVarCost = CalculatedCost(call.tech, MaxPer - 3)
    /\ techs[call.tech][call.period].variableCost = call.calVarCost
    /\ call.calVarCost # FoodReadInCost
    /\ \E j \in Techs : techs[j][MaxPer - 2].calObservedYield # NoYield

---------------------------------------------------------------------------
(* Further properties of the model run                                     *)

\* C21: setCalibrationStatus(period) sets the subsector's calibration
\* status to true only if the subsector itself has a calibration value for
\* the period or the output of all of its technologies is calibrated; a
\* subsector with no calibration value and at least one uncalibrated
\* technology keeps status false.
C21_StatusOnlyIfAllCalibrated ==
    \A period \in Periods :
        calibrationStatus[period] =>
            \/ doCalibration[period]
            \/ \A i \in Techs : techs[i][period].calStatus

---------------------------------------------------------------------------
(* SpecPass: the calibration target passed down.  The technologies are     *)
(* calibrated and each has share weight 0 or 1; after calcShare the caller *)
(* calls adjustForCalibration once.                                        *)
PassTechShrwtSet == {Zero, One}
PassCostSet == {One, <<2, 1>>}
PassDemandSet == {Zero, <<100, 1>>}
PassTotalSet == {<<50, 1>>, <<80, 1>>}

InitPass ==
    /\ Constructed
    /\ lexp = [p \in Periods |-> -1]
    /\ capLimit = [p \in Periods |-> One]
    /\ shrwts = [p \in Periods |-> One]
    /\ Parsed({}, Zero)
    /\ scaleYear = 0
    /\ calibrationActive = TRUE
    /\ techs \in {SameTechs([i \in Techs |-> Tech(w[i], -1, Zero, TRUE, <<20, 1>>)]) :
                     w \in [Techs -> PassTechShrwtSet]}
    /\ pc = "share"
    /\ drv \in {[period |-> p] : p \in Periods}
    /\ marketInfo = NoMarketInfo

PassCalcShare ==
    /\ pc = "share"
    /\ \E costs \in [Techs -> PassCostSet] : calcShare(drv.period, costs, One)
    /\ pc' = "cal"
    /\ UNCHANGED <<calls, drv, marketInfo>>

PassAdjustForCalibration ==
    /\ pc = "cal"
    /\ \E sectorDemand \in PassDemandSet, totalCalOutputs \in PassTotalSet,
          allFixedOutput \in BOOLEAN :
          adjustForCalibration(sectorDemand, Zero, totalCalOutputs,
                               allFixedOutput, drv.period)
    /\ pc' = "done"
    /\ UNCHANGED <<calls, drv, marketInfo>>

NextPass ==
    \/ PassCalcShare
    \/ PassAdjustForCalibration

SpecPass == InitPass /\ [][NextPass]_vars

\* the technologies of the period with a nonzero share weight
Available(period) == {i \in Techs : techs[i][period].shrwt # Zero}

C26_WitnessOne ==
    /\ call.op = "adjustForCalibration"
    /\ call.numberTechs = 1
    /\ Gt(call.calOutputSubsect, Zero)
    /\ \A i \in Techs : techs[i][call.period].shrwt \in {Zero, One}

---------------------------------------------------------------------------
(* SpecTotal: the calibrated output query.  The calibration values of the  *)
(* subsector and the technologies, each calibrated, with a calibration     *)
(* output but not calibrated, or plain, are read in; the caller asks       *)
(* getTotalCalOutputs once for any period.                                 *)
TotalValueSet == {<<30, 1>>, <<45, 1>>}
UncalibratedTech == Tech(One, -1, Zero, FALSE, <<5, 1>>)
TotalTechSet == {PlainTech, CalTech, UncalibratedTech}

InitTotal ==
    /\ Constructed
    /\ lexp = [p \in Periods |-> -1]
    /\ capLimit = [p \in Periods |-> One]
    /\ shrwts = [p \in Periods |-> One]
    /\ \E calPeriods \in {{}, {0}, {MaxPer - 2}, Periods}, value \in TotalValueSet :
          Parsed(calPeriods, value)
    /\ scaleYear = 0
    /\ calibrationActive = FALSE
    /\ \E f \in [Techs -> TotalTechSet] : techs = SameTechs(f)
    /\ pc = "query"
    /\ drv = [period |-> 0]
    /\ marketInfo = NoMarketInfo

TotalGetTotalCalOutputs ==
    /\ pc = "query"
    /\ \E period \in Periods :
          call' = [op |-> "getTotalCalOutputs", period |-> period,
                   result |-> getTotalCalOutputs(period)]
    /\ pc' = "done"
    /\ UNCHANGED <<group, techs, calls, drv, marketInfo>>

NextTotal == TotalGetTotalCalOutputs

SpecTotal == InitTotal /\ [][NextTotal]_vars

\* the calibration outputs of the technologies of S in the period, added up
RECURSIVE CalOutputOf(_, _)
CalOutputOf(S, period) ==
    IF S = {} THEN Zero
    ELSE LET i == CHOOSE j \in S : TRUE
         IN  Add(techs[i][period].calOutput, CalOutputOf(S \ {i}, period))

\* C27: getTotalCalOutputs(period) returns the subsector's calibration value
\* alone when the subsector has one for the period, whatever calibration
\* outputs its technologies have; otherwise it returns the sum of the
\* calibration outputs of exactly the technologies that are calibrated, and
\* 0 when none is.
C27_SubsectorValueOrTechSum ==
    call.op = "getTotalCalOutputs" =>
        LET period == call.period
            calibrated == {i \in Techs : techs[i][period].calStatus}
        IN  /\ doCalibration[period] => call.result = calOutputValue[period]
            /\ ~doCalibration[period]
                  => call.result = CalOutputOf(calibrated, period)
            /\ (~doCalibration[period] /\ calibrated = {}) => call.result = Zero

\* C27 happens: the subsector has a calibration value and a calibrated
\* technology, and the value alone is returned
C27_Witness ==
    /\ call.op = "getTotalCalOutputs"
    /\ doCalibration[call.period]
    /\ \E i \in Techs : /\ techs[i][call.period].calStatus
                        /\ Gt(techs[i][call.period].calOutput, Zero)
    /\ call.result = calOutputValue[call.period]
    /\ Gt(call.result, Zero)

\* without a subsector value, the calibrated technology's output is returned
\* and that of the technology that is not calibrated is left out
C27_WitnessTechSum ==
    /\ call.op = "getTotalCalOutputs"
    /\ ~doCalibration[call.period]
    /\ \E i, j \in Techs : /\ techs[i][call.period] = CalTech
                           /\ techs[j][call.period] = UncalibratedTech
    /\ call.result = CalTech.calOutput

---------------------------------------------------------------------------
(* SpecLimit: the capacity limit of a calibrated subsector.  A capacity    *)
(* limit for each period, the calibrated periods with their value and the  *)
(* technologies are read in; initCalc runs for the periods in order.       *)
LimitCapLimitSet == {<<7, 10>>, One}
LimitValueSet == {<<-30, 1>>, Zero, <<30, 1>>}

InitLimit ==
    /\ Constructed
    /\ lexp = [p \in Periods |-> -1]
    /\ capLimit \in [Periods -> LimitCapLimitSet]
    /\ shrwts = [p \in Periods |-> One]
    /\ \E calPeriods \in {{}, {0}, Periods}, value \in LimitValueSet :
          Parsed(calPeriods, value)
    /\ techs \in {PlainTechs, CalTechs}
    /\ scaleYear = getendyr
    /\ calibrationActive = TRUE
    /\ pc = "initCalc"
    /\ drv = [period |-> 0]
    /\ marketInfo = NoMarketInfo

LimitInitCalc ==
    /\ pc = "initCalc"
    /\ initCalc(drv.period)
    /\ drv' = [drv EXCEPT !.period = @ + 1]
    /\ pc' = IF drv.period + 1 < MaxPer THEN "initCalc" ELSE "done"
    /\ UNCHANGED calls
    /\ UNCHANGED marketInfo

NextLimit == LimitInitCalc

SpecLimit == InitLimit /\ [][NextLimit]_vars

\* the periods initCalc has run for
Initialized == {p \in Periods : p < drv.period}

\* C29: after initCalc a calibration value and a capacity limit below 1 never
\* hold together in a period that has been initialized.
C29_NoLimitWithCalibrationValue ==
    \A p \in Initialized : doCalibration[p] => ~Lt(capLimit[p], One)

\* the part of C29 that the code keeps: initCalc sets the capacity limit of
\* its period to 1 when the total calibrated output of the period is above 0,
\* and leaves the capacity limits of the other periods alone
C29_LimitOneWithCalibratedOutput ==
    [][(call'.op = "initCalc" /\ drv' # drv)
          => /\ Gt(getTotalCalOutputs(call'.period), Zero)
                   => capLimit'[call'.period] = One
             /\ \A p \in Periods \ {call'.period} :
                   capLimit'[p] = capLimit[p]]_vars

---------------------------------------------------------------------------
(* SpecRepeat: repeated calibration.  As in SpecCal the share is computed  *)
(* and normalized and adjustForCalibration is called; the caller then      *)
(* recomputes and renormalizes the share and calls adjustForCalibration    *)
(* again, MaxRounds times in all, each time with its current trial values. *)
MaxRounds == 2
RepeatShrwtSet == {One, <<2, 1>>}
RepeatDemandSet == {<<100, 1>>}
RepeatFixedSet == {Zero, <<40, 1>>}
RepeatTotalSet == {<<50, 1>>, <<80, 1>>}

InitRepeat ==
    /\ Constructed
    /\ lexp = [p \in Periods |-> -1]
    /\ capLimit = [p \in Periods |-> One]
    /\ shrwts \in {[p \in Periods |-> w] : w \in RepeatShrwtSet}
    /\ \/ Parsed({}, Zero)
       \/ Parsed(Periods, <<30, 1>>)
    /\ scaleYear = getendyr
    /\ calibrationActive = TRUE
    /\ techs \in {PlainTechs, CalTechs}
    /\ pc = "initCalc"
    /\ drv \in {[period |-> p, costs |-> c, others |-> One, round |-> 0,
                 sum |-> Zero, first |-> [op |-> "none"]] :
                   p \in {0, MaxPer - 1},
                   c \in {[i \in Techs |-> One], [i \in Techs |-> <<i, 1>>]}}
    /\ marketInfo = NoMarketInfo

RepeatInitCalc ==
    /\ pc = "initCalc"
    /\ initCalc(drv.period)
    /\ pc' = "share"
    /\ UNCHANGED <<calls, drv>>
    /\ UNCHANGED marketInfo

RepeatCalcShare ==
    /\ pc \in {"share", "reshare"}
    /\ calcShare(drv.period, drv.costs, One)
    /\ pc' = "norm"
    /\ UNCHANGED <<calls, drv>>
    /\ UNCHANGED marketInfo

\* the sum of the shares: the other subsectors' shares are as they were, or,
\* after a calibration, they have changed so that the sum is as it was
RepeatNormShare ==
    /\ pc = "norm"
    /\ \E sum \in {Add(share[drv.period], drv.others)}
                    \cup (IF drv.round > 0 THEN {drv.sum} ELSE {}) :
          /\ normShare(sum, drv.period)
          /\ drv' = [drv EXCEPT !.sum = sum]
    /\ pc' = IF drv.round < MaxRounds THEN "cal" ELSE "done"
    /\ UNCHANGED calls
    /\ UNCHANGED marketInfo

\* the caller keeps the locals of the first call
RepeatAdjustForCalibration ==
    /\ pc = "cal"
    /\ \E sectorDemand \in RepeatDemandSet, totalfixedOutput \in RepeatFixedSet,
          totalCalOutputs \in RepeatTotalSet, allFixedOutput \in BOOLEAN :
          adjustForCalibration(sectorDemand, totalfixedOutput, totalCalOutputs,
                               allFixedOutput, drv.period)
    /\ drv' = [drv EXCEPT !.round = @ + 1,
                          !.first = IF drv.round = 0 THEN call' ELSE @]
    /\ pc' = "reshare"
    /\ UNCHANGED calls
    /\ UNCHANGED marketInfo

NextRepeat ==
    \/ RepeatInitCalc
    \/ RepeatCalcShare
    \/ RepeatNormShare
    \/ RepeatAdjustForCalibration

SpecRepeat == InitRepeat /\ [][NextRepeat]_vars

\* C30: when adjustForCalibration is called in a state where share[period] *
\* sectorDemand equals the calibration target, after any rescaling, and the
\* share weight is above 0, the share weight of the period is left as it is,
\* and so are the share weights of the other periods.
C30_FixedPointKeepsShareWeight ==
    [][(/\ call'.op = "adjustForCalibration"
        /\ drv'.round # drv.round
        /\ Eq(call'.subSectorDemand, call'.calOutputSubsect)
        /\ Gt(shrwts[call'.period], Zero))
          => shrwts' = shrwts]_vars

\* C30 happens: the first call changed the share weight, the share was
\* recomputed and met the target, and the second call left the weight alone
C30_Witness ==
    /\ call.op = "adjustForCalibration"
    /\ drv.round = 2
    /\ drv.first.shrwtScaled # drv.first.shrwtBefore
    /\ Gt(call.calOutputSubsect, Zero)
    /\ Eq(call.subSectorDemand, call.calOutputSubsect)
    /\ Gt(call.shrwtBefore, Zero)
    /\ call.shrwtBefore # One
    /\ shrwts[call.period] = call.shrwtBefore

\* the same with a target that was rescaled
C30_WitnessRescaled ==
    /\ call.op = "adjustForCalibration"
    /\ drv.round = 2
    /\ call.calOutputSubsect # call.target
    /\ Gt(call.calOutputSubsect, Zero)
    /\ Eq(call.subSectorDemand, call.calOutputSubsect)
    /\ Gt(call.shrwtBefore, Zero)
    /\ shrwts[call.period] = call.shrwtBefore

=============================================================================
